---- MODULE Spec2Model ----
(***************************************************************************)
(* Model of the todo server handlers (server/src/handlers/update_todo.ts,  *)
(* server/src/handlers/delete_todo.ts) over the todos table.               *)
(*                                                                         *)
(* The table is a set of rows.  A handler call is one step: the single SQL *)
(* statement it issues is atomic in the store, and the handler does        *)
(* nothing to the store before or after it.  Each handler is an operator   *)
(* from (table, input, clock reading, whether the statement throws) to the *)
(* new table, the value returned or error thrown, what was logged and the  *)
(* number of statements executed; the actions apply these operators.       *)
(* The clock is a millisecond counter that Tick advances between calls; a  *)
(* call reads it (new Date()) in the step in which its statement runs.     *)
(*                                                                         *)
(* The view (client/src/App.tsx) is the React state of the App component   *)
(* plus the RPC calls it has in flight.  Every event handler and every     *)
(* continuation after an `await` is an operator from the view to the view; *)
(* a call travels request -> handler on the server -> response, and the    *)
(* requests and responses of different calls may overtake one another.     *)
(* Spec is the server alone (the view not mounted); SpecView is the view   *)
(* driving the server; SpecTheme is the themed screen (ThemeProvider       *)
(* around the view, with the ThemeToggle in its header) over sessions.     *)
(***************************************************************************)
EXTENDS Integers, FiniteSets, Sequences, Bags, TLC

VARIABLES store, nextId, now

\* useState of App, the open confirmation dialog, and the calls in flight.
VARIABLES todos, isLoading, editingTodo, formData, editFormData, dialog, calls

\* The number of user events (clicks, keystrokes, submits) so far.
VARIABLES gestures

\* The display mode of ThemeProvider and the preference it has persisted.
VARIABLES theme, persisted

vars == <<store, nextId, now>>

viewVars ==
  <<todos, isLoading, editingTodo, formData, editFormData, dialog, calls, gestures>>

themeVars == <<theme, persisted>>

\* ---------------------------------------------------------------- bounds
MaxTodos == 2      \* rows ever inserted
MaxTime == 1       \* last clock reading (milliseconds)
MaxInFlight == 2   \* RPC calls of the view in flight at once
MaxGestures == 3   \* user events in one session of the view

\* ---------------------------------------------------------------- values
NULL == "NULL"     \* SQL NULL / JS null, distinct from every string below
Titles == {"a", "b"}
Descriptions == {NULL, "d"}
Ids == 1..(MaxTodos + 1)

OptionalFields == {"title", "description", "completed"}

Part(name, vals) == {[k \in {} |-> 0]} \cup {[k \in {name} |-> v] : v \in vals}

Merge(f, g) ==
  [k \in DOMAIN f \cup DOMAIN g |-> IF k \in DOMAIN f THEN f[k] ELSE g[k]]

\* UpdateTodoInput: id plus any subset of the optional fields; a field that
\* is not in the record's domain is `undefined`.
UpdateTodoInput ==
  {Merge([id |-> i], Merge(t, Merge(d, c))) :
     i \in Ids, t \in Part("title", Titles),
     d \in Part("description", Descriptions), c \in Part("completed", BOOLEAN)}

DeleteTodoInput == {[id |-> i] : i \in Ids}

CreateTodoInput == {[title |-> t, description |-> d] : t \in Titles, d \in Descriptions}

\* ---------------------------------------------------------------- errors
StorageError == [name |-> "StorageError", id |-> 0]

NotFound(id) == [name |-> "Todo with id ${id} not found", id |-> id]

Return(v) == [ok |-> TRUE, value |-> v]

Throw(e) == [ok |-> FALSE, error |-> e]

\* ---------------------------------------------------------------- store
\* SET: the row with the columns named in `values` overwritten.
SetColumns(row, values) ==
  [k \in DOMAIN row |-> IF k \in DOMAIN values THEN values[k] ELSE row[k]]

\* Mutant: the WHERE clause is lost, every row is updated.
dbUpdate_noWhere(table, values, id, fails) ==
  IF fails
  THEN [threw |-> TRUE, error |-> StorageError, table |-> table,
        returning |-> {}, statements |-> 1]
  ELSE LET new == {SetColumns(r, values) : r \in table}
       IN [threw |-> FALSE, error |-> StorageError, table |-> new,
           returning |-> new, statements |-> 1]

\* Mutant: RETURNING yields the rows as they were before the SET.
dbUpdate_returnsOld(table, values, id, fails) ==
  IF fails
  THEN [threw |-> TRUE, error |-> StorageError, table |-> table,
        returning |-> {}, statements |-> 1]
  ELSE LET hit == {r \in table : r.id = id}
           new == {SetColumns(r, values) : r \in hit}
       IN [threw |-> FALSE, error |-> StorageError,
           table |-> (table \ hit) \cup new,
           returning |-> hit, statements |-> 1]

\* db.update(todosTable).set(values).where(eq(id)).returning().execute()
dbUpdate(table, values, id, fails) ==
  IF fails
  THEN [threw |-> TRUE, error |-> StorageError, table |-> table,
        returning |-> {}, statements |-> 1]
  ELSE LET hit == {r \in table : r.id = id}
           new == {SetColumns(r, values) : r \in hit}
       IN [threw |-> FALSE, error |-> StorageError,
           table |-> (table \ hit) \cup new,
           returning |-> new, statements |-> 1]

\* Mutant: the WHERE clause is lost, every row is deleted.
dbDelete_noWhere(table, id, fails) ==
  IF fails
  THEN [threw |-> TRUE, error |-> StorageError, table |-> table,
        returning |-> {}, statements |-> 1]
  ELSE [threw |-> FALSE, error |-> StorageError, table |-> {},
        returning |-> table, statements |-> 1]

\* db.delete(todosTable).where(eq(id)).returning().execute()
dbDelete(table, id, fails) ==
  IF fails
  THEN [threw |-> TRUE, error |-> StorageError, table |-> table,
        returning |-> {}, statements |-> 1]
  ELSE LET hit == {r \in table : r.id = id}
       IN [threw |-> FALSE, error |-> StorageError,
           table |-> table \ hit,
           returning |-> hit, statements |-> 1]

\* ---------------------------------------------------------------- handlers
\* Mutant: the catch block throws a new error in place of the one it caught.
Catch_wraps(prefix, error) ==
  [result |-> Throw([name |-> prefix, id |-> error.id]),
   logged |-> <<[prefix |-> prefix, error |-> error]>>]

\* catch (error) { console.error(prefix, error); throw error; }
Catch(prefix, error) ==
  [result |-> Throw(error), logged |-> <<[prefix |-> prefix, error |-> error]>>]

\* Mutant: the `completed` branch is missing.
updateValues_dropsCompleted(input, clock) ==
  LET provided == DOMAIN input \cap {"title", "description"}
  IN [k \in provided \cup {"updated_at"} |->
        IF k = "updated_at" THEN clock ELSE input[k]]

\* Mutant: `if (input.description)` in place of `!== undefined`: null is skipped.
updateValues_truthyDescription(input, clock) ==
  LET skip == IF "description" \in DOMAIN input /\ input["description"] = NULL
              THEN {"description"} ELSE {}
      provided == (DOMAIN input \cap OptionalFields) \ skip
  IN [k \in provided \cup {"updated_at"} |->
        IF k = "updated_at" THEN clock ELSE input[k]]

\* Mutant: created_at is refreshed together with updated_at.
updateValues_touchesCreatedAt(input, clock) ==
  LET provided == DOMAIN input \cap OptionalFields
  IN [k \in provided \cup {"updated_at", "created_at"} |->
        IF k \in {"updated_at", "created_at"} THEN clock ELSE input[k]]

\* Lines 10-25 of updateTodo: only the provided fields, and always updated_at.
updateValues(input, clock) ==
  LET provided == DOMAIN input \cap OptionalFields
  IN [k \in provided \cup {"updated_at"} |->
        IF k = "updated_at" THEN clock ELSE input[k]]

updateTodo(table, input, clock, fails) ==
  LET q == dbUpdate(table, updateValues(input, clock), input.id, fails)
  IN IF q.threw
     THEN Merge(Catch("Todo update failed:", q.error),
                [store |-> q.table, statements |-> q.statements])
     ELSE IF Cardinality(q.returning) = 0
     THEN Merge(Catch("Todo update failed:", NotFound(input.id)),
                [store |-> q.table, statements |-> q.statements])
     ELSE [result |-> Return(CHOOSE r \in q.returning : TRUE), logged |-> <<>>,
           store |-> q.table, statements |-> q.statements]

\* Mutant: success is `result.length > 1`.
deleteTodo_offByOne(table, input, fails) ==
  LET q == dbDelete(table, input.id, fails)
  IN IF q.threw
     THEN Merge(Catch("Todo deletion failed:", q.error),
                [store |-> q.table, statements |-> q.statements])
     ELSE [result |-> Return([success |-> Cardinality(q.returning) > 1]),
           logged |-> <<>>, store |-> q.table, statements |-> q.statements]

\* Mutant: a delete that matches no row throws, as updateTodo does.
deleteTodo_throwsWhenMissing(table, input, fails) ==
  LET q == dbDelete(table, input.id, fails)
  IN IF q.threw
     THEN Merge(Catch("Todo deletion failed:", q.error),
                [store |-> q.table, statements |-> q.statements])
     ELSE IF Cardinality(q.returning) = 0
     THEN Merge(Catch("Todo deletion failed:", NotFound(input.id)),
                [store |-> q.table, statements |-> q.statements])
     ELSE [result |-> Return([success |-> TRUE]),
           logged |-> <<>>, store |-> q.table, statements |-> q.statements]

deleteTodo(table, input, fails) ==
  LET q == dbDelete(table, input.id, fails)
  IN IF q.threw
     THEN Merge(Catch("Todo deletion failed:", q.error),
                [store |-> q.table, statements |-> q.statements])
     ELSE [result |-> Return([success |-> Cardinality(q.returning) > 0]),
           logged |-> <<>>, store |-> q.table, statements |-> q.statements]

\* Create: a new row with a fresh id, completed = false, both timestamps now.
createTodo(table, input, id, clock) ==
  LET row == [id |-> id, title |-> input.title, description |-> input.description,
              completed |-> FALSE, created_at |-> clock, updated_at |-> clock]
  IN [result |-> Return(row), logged |-> <<>>,
      store |-> table \cup {row}, statements |-> 1]

\* List: every stored row.
getTodos(table) == table

\* ---------------------------------------------------------------- view state
\* useState initial values (App.tsx lines 18-35); nothing in flight.
NoTodo == [id |-> 0, title |-> "", description |-> NULL, completed |-> FALSE,
           created_at |-> 0, updated_at |-> 0]

EmptyForm == [title |-> "", description |-> NULL]

InitialView ==
  [todos |-> <<>>, isLoading |-> FALSE, editingTodo |-> NoTodo,
   formData |-> EmptyForm, editFormData |-> EmptyForm, dialog |-> 0,
   calls |-> EmptyBag]

View ==
  [todos |-> todos, isLoading |-> isLoading, editingTodo |-> editingTodo,
   formData |-> formData, editFormData |-> editFormData, dialog |-> dialog,
   calls |-> calls]

ViewIs(v) ==
  /\ todos = v.todos
  /\ isLoading = v.isLoading
  /\ editingTodo = v.editingTodo
  /\ formData = v.formData
  /\ editFormData = v.editFormData
  /\ dialog = v.dialog
  /\ calls = v.calls

ViewBecomes(v) ==
  /\ todos' = v.todos
  /\ isLoading' = v.isLoading
  /\ editingTodo' = v.editingTodo
  /\ formData' = v.formData
  /\ editFormData' = v.editFormData
  /\ dialog' = v.dialog
  /\ calls' = v.calls

\* The server alone: the view is not mounted and stays so.

\* ---------------------------------------------------------------- theme
Themes == {"light", "dark"}

\* What an earlier session can have left as the persisted preference.
Persisted == {"none"} \cup Themes

\* The mode a session starts in: the persisted preference, light without one.
ResolveTheme(saved) == IF saved \in Themes THEN saved ELSE "light"


\* toggle that flips the mode of this session only.
toggleTheme_notPersisted(mode) ==
  LET flipped == IF mode = "light" THEN "dark" ELSE "light"
  IN [theme |-> flipped, persisted |-> "none"]

\* toggle: flips the mode and persists the new one.
toggleTheme(mode) ==
  LET flipped == IF mode = "light" THEN "dark" ELSE "light"
  IN [theme |-> flipped, persisted |-> flipped]

\* The presentation mode the provider applies to the whole view.
Presentation(mode) == [dark |-> mode = "dark"]


\* A ThemeToggle that shows the current mode.
ThemeToggle_showsCurrent(mode) ==
  [title |-> "Switch to " \o mode \o " mode",
   icon |-> IF mode = "light" THEN "Sun" ELSE "Moon",
   onClick |-> <<"toggleTheme">>]

\* The Button that ThemeToggle renders for a mode.
ThemeToggle(mode) ==
  [title |-> "Switch to " \o (IF mode = "light" THEN "dark" ELSE "light") \o " mode",
   icon |-> IF mode = "light" THEN "Moon" ELSE "Sun",
   onClick |-> <<"toggleTheme">>]

\* A click on a control runs each handler of its onClick, in order.
RECURSIVE Click(_, _)
Click(handlers, state) ==
  IF handlers = <<>> THEN state
  ELSE Click(Tail(handlers),
             IF Head(handlers) = "toggleTheme" THEN toggleTheme(state.theme) ELSE state)

\* ---------------------------------------------------------------- actions
\* An empty table and a view that has made no call.
Init ==
  /\ store = {}
  /\ nextId = 1
  /\ now = 0
  /\ ViewIs(InitialView)
  /\ gestures = 0
  /\ persisted = "none"
  /\ theme = ResolveTheme(persisted)

\* The wall clock advances by a millisecond.
Tick ==
  /\ now < MaxTime
  /\ now' = now + 1
  /\ UNCHANGED <<store, nextId>>

CreateTodo(input) ==
  /\ nextId <= MaxTodos
  /\ store' = createTodo(store, input, nextId, now).store
  /\ nextId' = nextId + 1
  /\ UNCHANGED now

UpdateTodo(input, fails) ==
  /\ store' = updateTodo(store, input, now, fails).store
  /\ UNCHANGED <<nextId, now>>

DeleteTodo(input, fails) ==
  /\ store' = deleteTodo(store, input, fails).store
  /\ UNCHANGED <<nextId, now>>

Next ==
  \/ Tick
  \/ \E input \in CreateTodoInput : CreateTodo(input)
  \/ \E input \in UpdateTodoInput, fails \in BOOLEAN : UpdateTodo(input, fails)
  \/ \E input \in DeleteTodoInput, fails \in BOOLEAN : DeleteTodo(input, fails)

Spec == Init /\ [][Next /\ UNCHANGED <<viewVars, themeVars>>]_<<vars, viewVars, themeVars>>

\* ---------------------------------------------------------------- helpers
HasRow(table, id) == \E r \in table : r.id = id

RowsOf(table, id) == {r \in table : r.id = id}

RowOf(table, id) == CHOOSE r \in table : r.id = id

\* ---------------------------------------------------------------- claims
\* The calls a state admits: every input, with the statement succeeding.
UpdateOut(input) == updateTodo(store, input, now, FALSE)

DeleteOut(input) == deleteTodo(store, input, FALSE)

\* C1: for every stored todo and every updateTodo input, a call whose
\* statement succeeds leaves exactly one row under that id, in which every
\* one of title, description, completed present in the input has the input's
\* value and every one not present has the value it had before the call.
C1_UpdateAppliesExactlyProvidedFields ==
  \A input \in UpdateTodoInput :
    HasRow(store, input.id) =>
      LET before == RowOf(store, input.id)
          after == RowsOf(UpdateOut(input).store, input.id)
      IN /\ Cardinality(after) = 1
         /\ \A r \in after : \A f \in OptionalFields :
              r[f] = IF f \in DOMAIN input THEN input[f] ELSE before[f]

\* A stored todo that an update has already completed at a later clock
\* reading, and an input carrying all three fields that changes all three.
C1_Witness ==
  \E r \in store : \E input \in UpdateTodoInput :
    /\ input.id = r.id /\ DOMAIN input = OptionalFields \cup {"id"}
    /\ r.completed /\ r.updated_at > r.created_at
    /\ input.title # r.title /\ input.description # r.description
    /\ ~input.completed
    /\ UpdateOut(input).result.ok

\* C2: updateTodo on an id that matches no stored row throws Not-Found for
\* that id in the same call, returns no record, and leaves the store as it was.
C2_UpdateMissingIdIsNotFound ==
  \A input \in UpdateTodoInput :
    ~HasRow(store, input.id) =>
      LET out == UpdateOut(input)
      IN /\ ~out.result.ok
         /\ out.result.error = NotFound(input.id)
         /\ out.store = store

\* A nonempty store and an update aimed at an id that is not in it.
C2_Witness ==
  \E input \in UpdateTodoInput :
    /\ store # {} /\ ~HasRow(store, input.id)
    /\ "title" \in DOMAIN input
    /\ ~UpdateOut(input).result.ok

\* C3: deleteTodo on the id of a stored todo returns success = true and the
\* listing of the store after the call has no row with that id.
C3_DeleteStoredReturnsTrue ==
  \A input \in DeleteTodoInput :
    HasRow(store, input.id) =>
      LET out == DeleteOut(input)
      IN /\ out.result.ok
         /\ out.result.value.success
         /\ ~HasRow(getTodos(out.store), input.id)

\* An id that was assigned and is no longer stored (a delete removed it),
\* next to a stored todo that a further delete would remove.
C3_Witness ==
  /\ \E i \in 1..(nextId - 1) : ~HasRow(store, i)
  /\ \E input \in DeleteTodoInput :
       HasRow(store, input.id) /\ DeleteOut(input).result.value.success

\* C4: deleteTodo on an id that matches no stored row returns success = false
\* as a normal result and leaves the store unchanged, whether the id was
\* never assigned or belongs to a todo already deleted.
C4_DeleteMissingReturnsFalse ==
  \A input \in DeleteTodoInput :
    ~HasRow(store, input.id) =>
      LET out == DeleteOut(input)
      IN /\ out.result.ok
         /\ ~out.result.value.success
         /\ out.store = store
         /\ out.logged = <<>>

\* Both cases at once: an id already deleted and an id never assigned.
C4_Witness ==
  /\ store # {}
  /\ \E input \in DeleteTodoInput :
       /\ input.id < nextId /\ ~HasRow(store, input.id)
       /\ ~DeleteOut(input).result.value.success
  /\ \E input \in DeleteTodoInput :
       /\ input.id >= nextId
       /\ ~DeleteOut(input).result.value.success

\* C5: every successful updateTodo call leaves the row's updated_at strictly
\* later than it was before the call, whichever optional fields the input
\* carries.  (Stated as claimed; the code writes the clock reading, which is
\* the same millisecond when the call follows the previous write at once.)
C5_UpdatedAtStrictlyLater ==
  \A input \in UpdateTodoInput :
    HasRow(store, input.id) =>
      LET out == UpdateOut(input)
      IN out.result.ok =>
           out.result.value.updated_at > RowOf(store, input.id).updated_at

\* C6: the listing after deleteTodo on a stored id is the listing before it
\* minus exactly one row, the one with that id; every other row is in the
\* second listing with all its fields as they were.
C6_DeleteRemovesExactlyThatRow ==
  \A input \in DeleteTodoInput :
    HasRow(store, input.id) =>
      LET first == getTodos(store)
          second == getTodos(DeleteOut(input).store)
          gone == first \ second
      IN /\ second \subseteq first
         /\ Cardinality(gone) = 1
         /\ \A r \in gone : r.id = input.id

\* Two todos were created and listed; deleting one leaves the other listed.
C6_Witness ==
  /\ Cardinality(getTodos(store)) = 2
  /\ \E input \in DeleteTodoInput :
       /\ HasRow(store, input.id)
       /\ Cardinality(getTodos(DeleteOut(input).store)) = 1

\* C7: updateTodo with description null (and nothing else) on a todo that has
\* a description leaves it with description null and with title and
\* completed unchanged; updateTodo with description omitted leaves the
\* stored description unchanged.
C7_NullClearsOmittedKeeps ==
  \A input \in UpdateTodoInput :
    HasRow(store, input.id) =>
      LET before == RowOf(store, input.id)
          after == RowsOf(UpdateOut(input).store, input.id)
      IN /\ ( /\ DOMAIN input = {"id", "description"}
              /\ input["description"] = NULL
              /\ before.description # NULL )
            => \A r \in after : /\ r.description = NULL
                                /\ r.title = before.title
                                /\ r.completed = before.completed
         /\ "description" \notin DOMAIN input
            => \A r \in after : r.description = before.description

\* A todo with a description, which the null input clears and the input
\* without description keeps.
C7_Witness ==
  \E r \in store :
    /\ r.description # NULL /\ r.completed
    /\ RowOf(UpdateOut([id |-> r.id, description |-> NULL]).store, r.id).description = NULL
    /\ RowOf(UpdateOut([id |-> r.id, title |-> "b"]).store, r.id).description = r.description

\* C8: the record a successful updateTodo call returns is the row stored
\* under that id right after the call, so a listing made then shows it.
C8_ReturnedRecordIsStoredRow ==
  \A input \in UpdateTodoInput :
    HasRow(store, input.id) =>
      LET out == UpdateOut(input)
      IN /\ out.result.ok
         /\ out.result.value.id = input.id
         /\ RowsOf(getTodos(out.store), input.id) = {out.result.value}

\* A todo and an update at a later clock reading that changes it: the
\* returned record differs from the row as it was.
C8_Witness ==
  \E r \in store : \E input \in UpdateTodoInput :
    /\ input.id = r.id
    /\ UpdateOut(input).result.ok
    /\ UpdateOut(input).result.value # r
    /\ UpdateOut(input).result.value.updated_at > r.updated_at

\* C9: in every step, every stored row either is still stored under the same
\* id with the same created_at (and is the only row under that id), or is
\* the one row the step removed.
C9_IdAndCreatedAtImmutable ==
  [][\A r \in store :
       \/ /\ Cardinality(RowsOf(store', r.id)) = 1
          /\ \A r2 \in RowsOf(store', r.id) : r2.created_at = r.created_at
       \/ store' = store \ {r}]_vars

\* One todo was deleted and another was updated at a later clock reading
\* than its creation, and still carries its creation time.
C9_Witness ==
  /\ \E i \in 1..(nextId - 1) : ~HasRow(store, i)
  /\ \E r \in store : r.updated_at > r.created_at /\ r.completed

\* C10: when the statement of updateTodo or deleteTodo throws, the call
\* throws that same error, returns no value, and has executed the statement
\* once.
C10_StorageFailurePropagates ==
  /\ \A input \in UpdateTodoInput :
       LET out == updateTodo(store, input, now, TRUE)
       IN /\ ~out.result.ok
          /\ out.result.error = StorageError
          /\ out.statements = 1
  /\ \A input \in DeleteTodoInput :
       LET out == deleteTodo(store, input, TRUE)
       IN /\ ~out.result.ok
          /\ out.result.error = StorageError
          /\ out.statements = 1

\* A stored todo on which both calls fail with the storage error, while the
\* same calls succeed when the statement does not throw.
C10_Witness ==
  \E r \in store :
    /\ updateTodo(store, [id |-> r.id, completed |-> TRUE], now, TRUE).result
         = Throw(StorageError)
    /\ deleteTodo(store, [id |-> r.id], TRUE).result = Throw(StorageError)
    /\ UpdateOut([id |-> r.id, completed |-> TRUE]).result.ok
    /\ DeleteOut([id |-> r.id]).result.ok

TypeOK ==
  /\ nextId \in 1..(MaxTodos + 1)
  /\ now \in 0..MaxTime
  /\ \A r \in store : r.id \in 1..(nextId - 1)
\* ================================================================ the view
\* ---------------------------------------------------------------- values
\* What the user can type into a title input; " " is whitespace only.
TypedTitles == {"", " "} \cup Titles

\* What the user can type into a description textarea.
TypedDescriptions == {"", "d"}

\* String.prototype.trim on the strings above.
Trim(text) == IF text \in {"", " "} THEN "" ELSE text

\* `e.target.value || null`: the empty string is stored as null.
OrNull(text) == IF text = "" THEN NULL ELSE text

\* getTodos takes no input.
NoInput == [none |-> TRUE]

Pending == Throw([name |-> "pending", id |-> 0])

\* A call just issued: `from` names the handler whose continuation awaits it.
Request(from, input) ==
  [from |-> from, input |-> input, stage |-> "request", result |-> Pending]

Response(c, result) ==
  [from |-> c.from, input |-> c.input, stage |-> "response", result |-> result]

Issue(v, from, input) ==
  [v EXCEPT !.calls = @ (+) SetToBag({Request(from, input)})]

\* The listing returns every stored row once, in the store's retrieval order.
\* That order is not fixed by the handler: a listing is drawn from the rows in
\* ascending or in descending id order, which are all the orders of two rows.
Listings(table) ==
  {l \in [1..Cardinality(table) -> table] :
     \/ \A i, j \in 1..Cardinality(table) : i < j => l[i].id < l[j].id
     \/ \A i, j \in 1..Cardinality(table) : i < j => l[i].id > l[j].id}

\* prev.map(t => t.id === id ? response : t)
ReplaceById(list, id, response) ==
  [i \in 1..Len(list) |-> IF list[i].id = id THEN response ELSE list[i]]

\* prev.filter(t => t.id !== id)
FilterOutId(list, id) == SelectSeq(list, LAMBDA t : t.id # id)

\* ---------------------------------------------------------------- render
totalCount(v) == Len(v.todos)

completedCount(v) == Cardinality({i \in 1..Len(v.todos) : v.todos[i].completed})

\* The cards rendered as an edit form: editingTodo?.id === todo.id.
EditCards(v) == {i \in 1..Len(v.todos) : v.editingTodo.id = v.todos[i].id}


\* The view with the counters tied to the completed items only.
Render_countersWhenCompleted(v) ==
  [counters |-> completedCount(v) > 0,
   total |-> totalCount(v),
   completed |-> completedCount(v),
   remaining |-> totalCount(v) - completedCount(v),
   placeholder |-> Len(v.todos) = 0,
   submitDisabled |-> v.isLoading,
   editCards |-> EditCards(v),
   displayCards |-> (1..Len(v.todos)) \ EditCards(v)]

\* What the JSX of lines 134-327 shows for a view.
Render(v) ==
  [counters |-> totalCount(v) > 0,
   total |-> totalCount(v),
   completed |-> completedCount(v),
   remaining |-> totalCount(v) - completedCount(v),
   placeholder |-> Len(v.todos) = 0,
   submitDisabled |-> v.isLoading,
   editCards |-> EditCards(v),
   displayCards |-> (1..Len(v.todos)) \ EditCards(v)]

\* A card that leaves the list takes its confirmation dialog with it.
Unmount(v) ==
  IF v.dialog # 0 /\ ~\E i \in 1..Len(v.todos) : v.todos[i].id = v.dialog
  THEN [v EXCEPT !.dialog = 0]
  ELSE v

\* ---------------------------------------------------------------- handlers
\* onChange of the two create inputs (lines 172-187).
setFormTitle(v, text) == [v EXCEPT !.formData.title = text]

setFormDescription(v, text) == [v EXCEPT !.formData.description = OrNull(text)]

\* onChange of the two edit inputs (lines 220-233).
setEditTitle(v, text) == [v EXCEPT !.editFormData.title = text]

setEditDescription(v, text) == [v EXCEPT !.editFormData.description = OrNull(text)]


\* loadTodos that calls itself again from its catch block.
loadTodosSettled_retries(v, input, result) ==
  IF result.ok THEN Unmount([v EXCEPT !.todos = result.value.rows])
  ELSE Issue(v, "loadTodos", NoInput)

\* loadTodos after its await (lines 40-44).
loadTodosSettled(v, input, result) ==
  IF result.ok THEN Unmount([v EXCEPT !.todos = result.value.rows]) ELSE v



\* handleSubmit that tests the title without trimming it.
handleSubmit_noTrim(v) ==
  IF v.formData.title = ""
  THEN v
  ELSE Issue([v EXCEPT !.isLoading = TRUE], "handleSubmit", v.formData)

\* handleSubmit without setIsLoading(true).
handleSubmit_notLoading(v) ==
  IF Trim(v.formData.title) = ""
  THEN v
  ELSE Issue(v, "handleSubmit", v.formData)

\* handleSubmit up to its await (lines 52-58).
handleSubmit(v) ==
  IF Trim(v.formData.title) = ""
  THEN v
  ELSE Issue([v EXCEPT !.isLoading = TRUE], "handleSubmit", v.formData)



\* handleSubmit that puts the new todo first: [response, ...prev].
handleSubmitSettled_prepends(v, input, result) ==
  LET w == IF result.ok
           THEN [v EXCEPT !.todos = <<result.value>> \o @, !.formData = EmptyForm]
           ELSE v
  IN [w EXCEPT !.isLoading = FALSE]

\* handleSubmit with the form reset moved to the finally block.
handleSubmitSettled_resetsInFinally(v, input, result) ==
  LET w == IF result.ok THEN [v EXCEPT !.todos = Append(@, result.value)] ELSE v
  IN [w EXCEPT !.isLoading = FALSE, !.formData = EmptyForm]

\* handleSubmit after its await (lines 58-70).
handleSubmitSettled(v, input, result) ==
  LET w == IF result.ok
           THEN [v EXCEPT !.todos = Append(@, result.value), !.formData = EmptyForm]
           ELSE v
  IN [w EXCEPT !.isLoading = FALSE]


\* handleToggleComplete that flips the local item before calling the server.
handleToggleComplete_optimistic(v, todo) ==
  Issue([v EXCEPT !.todos =
           ReplaceById(@, todo.id, [todo EXCEPT !.completed = ~todo.completed])],
        "handleToggleComplete", [id |-> todo.id, completed |-> ~todo.completed])

\* handleToggleComplete up to its await (lines 73-79).
handleToggleComplete(v, todo) ==
  Issue(v, "handleToggleComplete", [id |-> todo.id, completed |-> ~todo.completed])


\* handleToggleComplete that drops a response older than the local item.
handleToggleCompleteSettled_keepsNewest(v, input, result) ==
  IF result.ok
  THEN [v EXCEPT !.todos =
          [i \in 1..Len(v.todos) |->
             IF v.todos[i].id = input.id
                /\ v.todos[i].updated_at <= result.value.updated_at
             THEN result.value ELSE v.todos[i]]]
  ELSE v

\* handleToggleComplete after its await (lines 79-85).
handleToggleCompleteSettled(v, input, result) ==
  IF result.ok
  THEN [v EXCEPT !.todos = ReplaceById(@, input.id, result.value)]
  ELSE v

\* handleDelete up to its await (line 90); AlertDialogAction closes the dialog.
handleDelete(v, todoId) ==
  Issue([v EXCEPT !.dialog = 0], "handleDelete", [id |-> todoId])

\* handleDelete after its await (lines 90-94).
handleDeleteSettled(v, input, result) ==
  IF result.ok
  THEN Unmount([v EXCEPT !.todos = FilterOutId(@, input.id)])
  ELSE v

\* startEdit (lines 97-103).
startEdit(v, todo) ==
  [v EXCEPT !.editingTodo = todo,
            !.editFormData = [title |-> todo.title, description |-> todo.description]]



\* handleEditSubmit that tests the title without trimming it.
handleEditSubmit_noTrim(v) ==
  IF v.editingTodo = NoTodo \/ v.editFormData.title = ""
  THEN v
  ELSE Issue(v, "handleEditSubmit",
             [id |-> v.editingTodo.id, title |-> v.editFormData.title,
              description |-> v.editFormData.description])

\* handleEditSubmit that sends the item back whole, completed included.
handleEditSubmit_sendsCompleted(v) ==
  IF v.editingTodo = NoTodo \/ Trim(v.editFormData.title) = ""
  THEN v
  ELSE Issue(v, "handleEditSubmit",
             [id |-> v.editingTodo.id, title |-> v.editFormData.title,
              description |-> v.editFormData.description,
              completed |-> v.editingTodo.completed])

\* handleEditSubmit up to its await (lines 105-115).
handleEditSubmit(v) ==
  IF v.editingTodo = NoTodo \/ Trim(v.editFormData.title) = ""
  THEN v
  ELSE Issue(v, "handleEditSubmit",
             [id |-> v.editingTodo.id, title |-> v.editFormData.title,
              description |-> v.editFormData.description])

\* handleEditSubmit after its await (lines 115-123).
handleEditSubmitSettled(v, input, result) ==
  IF result.ok
  THEN [v EXCEPT !.todos = ReplaceById(@, input.id, result.value),
                 !.editingTodo = NoTodo, !.editFormData = EmptyForm]
  ELSE v


\* cancelEdit that leaves what was typed in the edit form.
cancelEdit_keepsForm(v) == [v EXCEPT !.editingTodo = NoTodo]

\* cancelEdit (lines 126-129).
cancelEdit(v) == [v EXCEPT !.editingTodo = NoTodo, !.editFormData = EmptyForm]


\* A delete button that calls handleDelete at once, without a dialog.
openDeleteDialog_noConfirm(v, todo) ==
  Issue(v, "handleDelete", [id |-> todo.id])

\* AlertDialogTrigger of a card (lines 286-290) and AlertDialogCancel (299).
openDeleteDialog(v, todo) == [v EXCEPT !.dialog = todo.id]

cancelDeleteDialog(v) == [v EXCEPT !.dialog = 0]

\* The continuation that awaits a call.
Settled(v, c) ==
  CASE c.from = "loadTodos" -> loadTodosSettled(v, c.input, c.result)
    [] c.from = "handleSubmit" -> handleSubmitSettled(v, c.input, c.result)
    [] c.from = "handleToggleComplete" -> handleToggleCompleteSettled(v, c.input, c.result)
    [] c.from = "handleEditSubmit" -> handleEditSubmitSettled(v, c.input, c.result)
    [] c.from = "handleDelete" -> handleDeleteSettled(v, c.input, c.result)

\* The procedure of the router that serves a call, run on the table.
Served(c, table, id, clock, fails, listing) ==
  CASE c.from = "loadTodos" ->
         [store |-> table,
          result |-> IF fails THEN Throw(StorageError)
                     ELSE Return([rows |-> listing])]
    [] c.from = "handleSubmit" ->
         IF fails THEN [store |-> table, result |-> Throw(StorageError)]
         ELSE createTodo(table, c.input, id, clock)
    [] c.from \in {"handleToggleComplete", "handleEditSubmit"} ->
         updateTodo(table, c.input, clock, fails)
    [] c.from = "handleDelete" -> deleteTodo(table, c.input, fails)

\* ---------------------------------------------------------------- actions
\* One more user event, while the dialog (modal) is closed.
Gesture ==
  /\ gestures < MaxGestures
  /\ gestures' = gestures + 1

Interactive == dialog = 0 /\ Gesture

CanIssue == BagCardinality(calls) < MaxInFlight

\* The table an earlier session left behind: k todos created one by one.
RECURSIVE StoredBefore(_)
StoredBefore(k) ==
  IF k = 0 THEN {}
  ELSE createTodo(StoredBefore(k - 1), [title |-> "a", description |-> "d"], k, 0).store

\* Mount: the first render and its effect, which calls loadTodos once.
InitView ==
  /\ now = 0
  /\ \E k \in 0..MaxTodos : store = StoredBefore(k) /\ nextId = k + 1
  /\ ViewIs(Issue(InitialView, "loadTodos", NoInput))
  /\ gestures = 0
  /\ persisted = "none"
  /\ theme = ResolveTheme(persisted)

UserTypeTitle(text) ==
  /\ Interactive
  /\ ViewBecomes(setFormTitle(View, text))
  /\ UNCHANGED vars

UserTypeDescription(text) ==
  /\ Interactive
  /\ ViewBecomes(setFormDescription(View, text))
  /\ UNCHANGED vars

UserSubmit ==
  /\ Interactive /\ CanIssue
  /\ ~Render(View).submitDisabled
  /\ nextId <= MaxTodos
  /\ ViewBecomes(handleSubmit(View))
  /\ UNCHANGED vars

UserToggle(i) ==
  /\ Interactive /\ CanIssue
  /\ i \in Render(View).displayCards
  /\ ViewBecomes(handleToggleComplete(View, todos[i]))
  /\ UNCHANGED vars

UserStartEdit(i) ==
  /\ Interactive
  /\ i \in Render(View).displayCards
  /\ ViewBecomes(startEdit(View, todos[i]))
  /\ UNCHANGED vars

UserEditTitle(text) ==
  /\ Interactive
  /\ Render(View).editCards # {}
  /\ ViewBecomes(setEditTitle(View, text))
  /\ UNCHANGED vars

UserEditDescription(text) ==
  /\ Interactive
  /\ Render(View).editCards # {}
  /\ ViewBecomes(setEditDescription(View, text))
  /\ UNCHANGED vars

UserEditSubmit ==
  /\ Interactive /\ CanIssue
  /\ Render(View).editCards # {}
  /\ ViewBecomes(handleEditSubmit(View))
  /\ UNCHANGED vars

UserCancelEdit ==
  /\ Interactive
  /\ Render(View).editCards # {}
  /\ ViewBecomes(cancelEdit(View))
  /\ UNCHANGED vars

UserOpenDelete(i) ==
  /\ Interactive
  /\ i \in Render(View).displayCards
  /\ ViewBecomes(openDeleteDialog(View, todos[i]))
  /\ UNCHANGED vars

UserCancelDelete ==
  /\ dialog # 0 /\ Gesture
  /\ ViewBecomes(cancelDeleteDialog(View))
  /\ UNCHANGED vars

UserConfirmDelete ==
  /\ dialog # 0 /\ Gesture /\ CanIssue
  /\ ViewBecomes(handleDelete(View, dialog))
  /\ UNCHANGED vars

\* The server runs the handler of one request; its response is on its way.
ServerHandle(c, fails) ==
  /\ BagIn(c, calls) /\ c.stage = "request"
  /\ \E listing \in Listings(getTodos(store)) :
       LET out == Served(c, store, nextId, now, fails, listing)
       IN /\ store' = out.store
          /\ calls' = (calls (-) SetToBag({c})) (+) SetToBag({Response(c, out.result)})
  /\ nextId' = IF c.from = "handleSubmit" /\ ~fails THEN nextId + 1 ELSE nextId
  /\ UNCHANGED <<now, todos, isLoading, editingTodo, formData, editFormData, dialog,
                 gestures>>

\* A response arrives and the continuation awaiting it runs.
Settle(c) ==
  /\ BagIn(c, calls) /\ c.stage = "response"
  /\ ViewBecomes(Settled([View EXCEPT !.calls = @ (-) SetToBag({c})], c))
  /\ UNCHANGED <<vars, gestures>>

NextView ==
  \/ \E text \in TypedTitles : UserTypeTitle(text)
  \/ \E text \in TypedDescriptions : UserTypeDescription(text)
  \/ UserSubmit
  \/ \E i \in 1..Len(todos) : UserToggle(i)
  \/ \E i \in 1..Len(todos) : UserStartEdit(i)
  \/ \E text \in TypedTitles : UserEditTitle(text)
  \/ \E text \in TypedDescriptions : UserEditDescription(text)
  \/ UserEditSubmit
  \/ UserCancelEdit
  \/ \E i \in 1..Len(todos) : UserOpenDelete(i)
  \/ UserCancelDelete
  \/ UserConfirmDelete
  \/ \E c \in BagToSet(calls), fails \in BOOLEAN : ServerHandle(c, fails)
  \/ \E c \in BagToSet(calls) : Settle(c)
  \/ Tick /\ UNCHANGED viewVars

SpecView == InitView /\ [][NextView /\ UNCHANGED themeVars]_<<vars, viewVars, themeVars>>

\* ================================================================ the themed screen
\* A session of the themed screen starts: the provider resolves the mode and
\* the view mounts.
InitTheme ==
  /\ now = 0
  /\ \E k \in 0..MaxTodos : store = StoredBefore(k) /\ nextId = k + 1
  /\ ViewIs(Issue(InitialView, "loadTodos", NoInput))
  /\ gestures = 0
  /\ persisted \in Persisted
  /\ theme = ResolveTheme(persisted)

\* A click on the ThemeToggle of the header.
UserToggleTheme ==
  /\ Interactive
  /\ LET after == Click(ThemeToggle(theme).onClick,
                        [theme |-> theme, persisted |-> persisted])
     IN theme' = after.theme /\ persisted' = after.persisted
  /\ UNCHANGED <<vars, todos, isLoading, editingTodo, formData, editFormData, dialog,
                 calls>>

\* The session ends (the page is closed with whatever is in flight) and a
\* fresh one starts.
NewSession ==
  /\ Gesture
  /\ ViewBecomes(Issue(InitialView, "loadTodos", NoInput))
  /\ theme' = ResolveTheme(persisted)
  /\ UNCHANGED <<vars, persisted>>

\* The themed screen: the toggle, sessions, and the gestures of the view
\* that call nothing, with the server answering the list query.
NextTheme ==
  \/ UserToggleTheme
  \/ NewSession
  \/ (\E text \in TypedTitles : UserTypeTitle(text)) /\ UNCHANGED themeVars
  \/ (\E text \in TypedDescriptions : UserTypeDescription(text)) /\ UNCHANGED themeVars
  \/ (\E i \in 1..Len(todos) : UserStartEdit(i)) /\ UNCHANGED themeVars
  \/ UserCancelEdit /\ UNCHANGED themeVars
  \/ (\E i \in 1..Len(todos) : UserOpenDelete(i)) /\ UNCHANGED themeVars
  \/ UserCancelDelete /\ UNCHANGED themeVars
  \/ (\E c \in BagToSet(calls), fails \in BOOLEAN : ServerHandle(c, fails))
       /\ UNCHANGED themeVars
  \/ (\E c \in BagToSet(calls) : Settle(c)) /\ UNCHANGED themeVars

SpecTheme == InitTheme /\ [][NextTheme]_<<vars, viewVars, themeVars>>

\* ================================================================ the claims of the view
\* C11: in every state of the view the placeholder is rendered exactly when
\* the local list is empty, the counters are rendered exactly when the list
\* has at least one item, they show the number of items and of completed
\* items, and remaining is total minus completed.
C11_PlaceholderAndCounters ==
  LET shown == Render(View)
      done == {i \in DOMAIN todos : todos[i].completed}
  IN /\ shown.placeholder <=> todos = <<>>
     /\ shown.counters <=> Len(todos) > 0
     /\ shown.total = Len(todos)
     /\ shown.completed = Cardinality(done)
     /\ shown.remaining = shown.total - shown.completed
     /\ shown.remaining = Cardinality(DOMAIN todos \ done)

\* A list of two items of which one is completed: the counters read 2, 1, 1.
C11_Witness ==
  /\ Len(todos) = 2
  /\ Render(View).counters /\ ~Render(View).placeholder
  /\ Render(View).completed = 1 /\ Render(View).remaining = 1

\* The handlers behind the four user actions that call the server.
UserActions ==
  {"handleSubmit", "handleToggleComplete", "handleEditSubmit", "handleDelete"}

\* The view before and after agree on what C12 names.
Kept(v, w) ==
  /\ w.todos = v.todos
  /\ w.editingTodo = v.editingTodo
  /\ w.editFormData = v.editFormData
  /\ w.formData = v.formData

\* The view once the response c has arrived and its continuation has run.
AfterSettle(c) == Settled([View EXCEPT !.calls = @ (-) SetToBag({c})], c)

\* C12: a user action that fails changes neither the local list, nor the item
\* in edit mode, nor the edit form values, nor the create form values: the
\* part of each handler before its await leaves them alone, and so does the
\* part that runs when the call is rejected; after a rejected create the
\* submit control is enabled again.
C12_FailureLeavesViewUnchanged ==
  /\ Kept(View, handleSubmit(View))
  /\ Kept(View, handleEditSubmit(View))
  /\ \A i \in DOMAIN todos :
       /\ Kept(View, handleToggleComplete(View, todos[i]))
       /\ Kept(View, handleDelete(View, todos[i].id))
  /\ \A c \in BagToSet(calls) :
       c.stage = "response" /\ c.from \in UserActions /\ ~c.result.ok =>
         /\ Kept(View, AfterSettle(c))
         /\ c.from = "handleSubmit" => ~Render(AfterSettle(c)).submitDisabled

\* The create call of a filled form has been rejected and its response is
\* about to be handled, while the list has items and one is in edit mode.
C12_Witness ==
  /\ Len(todos) > 0 /\ editingTodo # NoTodo
  /\ formData.title \in Titles
  /\ Render(View).submitDisabled
  /\ \E c \in BagToSet(calls) :
       c.stage = "response" /\ c.from = "handleSubmit" /\ ~c.result.ok

\* C13: a toggle of a displayed item issues its update call whatever calls
\* are already in flight, one for the same item included; and when the
\* response of a toggle arrives, the last one of two included, every local
\* item with its id becomes the record that response carries.
C13_LaterToggleResponseWins ==
  /\ \A i \in Render(View).displayCards :
       LET request == Request("handleToggleComplete",
                              [id |-> todos[i].id, completed |-> ~todos[i].completed])
       IN CopiesIn(request, handleToggleComplete(View, todos[i]).calls)
            = CopiesIn(request, calls) + 1
  /\ \A c \in BagToSet(calls) :
       c.stage = "response" /\ c.from = "handleToggleComplete" /\ c.result.ok =>
         \A i \in DOMAIN todos :
           todos[i].id = c.input.id => AfterSettle(c).todos[i] = c.result.value

\* Two toggles of one item were issued before any response; the response of
\* the one served later has been handled, and the response of the one served
\* first, an older record, is the last to arrive.
C13_Witness ==
  /\ gestures = 2
  /\ \E c \in BagToSet(calls) : \E i \in DOMAIN todos :
       /\ c.stage = "response" /\ c.from = "handleToggleComplete" /\ c.result.ok
       /\ BagCardinality(calls) = 1
       /\ todos[i].id = c.input.id
       /\ todos[i].completed = c.input.completed
       /\ todos[i].updated_at > c.result.value.updated_at

\* The createTodo calls of the view that have no handled response yet.
CreatesInFlight == {c \in BagToSet(calls) : c.from = "handleSubmit"}

\* C14: while a createTodo call of the view is in flight the submit button is
\* disabled; there is never more than one such call in flight; and serving a
\* create request adds at most one todo to the store, once.
C14_OneCreateInFlight ==
  /\ CreatesInFlight # {} => Render(View).submitDisabled
  /\ BagCardinality([c \in CreatesInFlight |-> CopiesIn(c, calls)]) <= 1
  /\ \A c \in CreatesInFlight : \A fails \in BOOLEAN :
       c.stage = "request" =>
         LET out == Served(c, store, nextId, now, fails, <<>>)
         IN /\ Cardinality(out.store) <= Cardinality(store) + 1
            /\ store \subseteq out.store
  /\ \A c \in CreatesInFlight :
       c.stage = "response" /\ c.result.ok =>
         Cardinality({r \in store : r.id = c.result.value.id}) <= 1

\* A submission has been served and has created its todo; its response has
\* not been handled yet, the button is still disabled, and another call of the
\* view is in flight as well.
C14_Witness ==
  /\ Render(View).submitDisabled
  /\ BagCardinality(calls) = 2
  /\ \E c \in CreatesInFlight :
       c.stage = "response" /\ c.result.ok /\ c.result.value \in store

\* C15: submitting the create form while its title is empty after trimming
\* issues no call and changes nothing of the view, the list and the form
\* included.
C15_BlankTitleSubmitDoesNothing ==
  Trim(formData.title) = "" =>
    /\ handleSubmit(View) = View
    /\ handleSubmit(View).calls = calls
    /\ handleSubmit(View).todos = todos
    /\ handleSubmit(View).formData = formData

\* The form holds a whitespace-only title and a description, the button is
\* enabled and the list has items; the three gestures (two inputs and the
\* submission) have left no call in flight.
C15_Witness ==
  /\ formData = [title |-> " ", description |-> "d"]
  /\ ~Render(View).submitDisabled
  /\ Len(todos) > 0
  /\ gestures = 3
  /\ calls = EmptyBag

\* C16: when the response of a create call carries the new Todo, the local
\* list becomes the list as it was followed by that Todo, and the form becomes
\* the empty title with no description.
C16_CreateSuccessAppendsAndResets ==
  \A c \in CreatesInFlight :
    c.stage = "response" /\ c.result.ok =>
      LET after == AfterSettle(c)
      IN /\ Len(after.todos) = Len(todos) + 1
         /\ after.todos[Len(after.todos)] = c.result.value
         /\ \A i \in DOMAIN todos : after.todos[i] = todos[i]
         /\ after.formData.title = ""
         /\ after.formData.description = NULL

\* A create call has succeeded on the server and its response is about to be
\* handled, while the list holds an item and the form still holds the title.
C16_Witness ==
  /\ Len(todos) > 0
  /\ formData.title \in Titles
  /\ \E c \in CreatesInFlight :
       /\ c.stage = "response" /\ c.result.ok
       /\ \A i \in DOMAIN todos : todos[i].id # c.result.value.id

\* C17: a toggle of a displayed item issues one update call whose input has
\* the fields id and completed only, completed being the negation of the
\* item's completed in the local list, and changes nothing else of the view;
\* when its response carries a record, every local item with that id becomes
\* that record and every other item, and the rest of the view, stays as it is.
C17_ToggleSendsNegationAndReplaces ==
  /\ \A i \in Render(View).displayCards :
       LET after == handleToggleComplete(View, todos[i])
       IN /\ [after EXCEPT !.calls = calls] = View
          /\ \E c \in BagToSet(after.calls) :
               /\ after.calls = calls (+) SetToBag({c})
               /\ c.from = "handleToggleComplete" /\ c.stage = "request"
               /\ DOMAIN c.input = {"id", "completed"}
               /\ c.input.id = todos[i].id
               /\ c.input.completed = ~todos[i].completed
  /\ \A c \in BagToSet(calls) :
       c.stage = "response" /\ c.from = "handleToggleComplete" /\ c.result.ok =>
         LET after == AfterSettle(c)
         IN /\ Len(after.todos) = Len(todos)
            /\ \A i \in DOMAIN todos :
                 after.todos[i] = IF todos[i].id = c.input.id
                                  THEN c.result.value ELSE todos[i]
            /\ [after EXCEPT !.todos = todos, !.calls = calls] = View

\* The toggle of one of two listed items has been served and its response,
\* with the negated completed value, is about to replace the local item.
C17_Witness ==
  /\ Len(todos) = 2
  /\ \E c \in BagToSet(calls) : \E i \in DOMAIN todos :
       /\ c.stage = "response" /\ c.from = "handleToggleComplete" /\ c.result.ok
       /\ todos[i].id = c.input.id
       /\ c.result.value.completed = ~todos[i].completed
       /\ \E j \in DOMAIN todos : todos[j].id # c.input.id

\* C18: submitting the edit form of an item with a title that is not blank
\* issues one update call whose input has the fields id, title and
\* description only, taken from the item in edit mode and the edit form;
\* serving that call leaves the stored completed value of the todo as it is;
\* and when the response carries a record, every local item with that id
\* becomes that record and no item is in edit mode.
C18_EditSendsNoCompleted ==
  /\ editingTodo # NoTodo /\ Trim(editFormData.title) # "" =>
       LET after == handleEditSubmit(View)
       IN /\ [after EXCEPT !.calls = calls] = View
          /\ \E c \in BagToSet(after.calls) :
               /\ after.calls = calls (+) SetToBag({c})
               /\ c.from = "handleEditSubmit" /\ c.stage = "request"
               /\ DOMAIN c.input = {"id", "title", "description"}
               /\ c.input.id = editingTodo.id
               /\ c.input.title = editFormData.title
               /\ c.input.description = editFormData.description
  /\ \A c \in BagToSet(calls) : \A fails \in BOOLEAN :
       c.stage = "request" /\ c.from = "handleEditSubmit" =>
         LET out == Served(c, store, nextId, now, fails, <<>>)
         IN \A r \in RowsOf(store, c.input.id) :
              /\ RowsOf(out.store, c.input.id) # {}
              /\ \A r2 \in RowsOf(out.store, c.input.id) : r2.completed = r.completed
  /\ \A c \in BagToSet(calls) :
       c.stage = "response" /\ c.from = "handleEditSubmit" /\ c.result.ok =>
         LET after == AfterSettle(c)
         IN /\ Len(after.todos) = Len(todos)
            /\ \A i \in DOMAIN todos :
                 after.todos[i] = IF todos[i].id = c.input.id
                                  THEN c.result.value ELSE todos[i]
            /\ after.editingTodo = NoTodo
            /\ Render(after).editCards = {}

\* An edit that changed the title has been served and its response is about
\* to be handled: the item is still in edit mode and still has its old title,
\* and the record of the response has the completed value of the local item.
C18_Witness ==
  \E c \in BagToSet(calls) : \E i \in Render(View).editCards :
    /\ c.stage = "response" /\ c.from = "handleEditSubmit" /\ c.result.ok
    /\ todos[i].id = c.input.id
    /\ c.result.value.title # todos[i].title
    /\ c.result.value.completed = todos[i].completed
    /\ c.result.value \in store

\* C19: in every state of the view at most one item of the local list is in
\* edit mode, that is, at most one card is rendered as an edit form.
C19_AtMostOneInEditMode ==
  Cardinality(Render(View).editCards) <= 1

\* C20: a step of the view adds a deleteTodo call for an id to the calls in
\* flight only when it is a user gesture made while the confirmation dialog of
\* an item with that id is open, and that gesture closes the dialog;
\* cancelling the dialog adds no call; and when the response of a deleteTodo
\* call arrives without an error the local list becomes the list without the
\* items of that id, the other items unchanged and in order.
C20_DeleteOnlyAfterConfirm ==
  /\ [][\A c \in BagToSet(calls') :
          c.from = "handleDelete" /\ c.stage = "request"
          /\ CopiesIn(c, calls') > CopiesIn(c, calls) =>
            /\ dialog = c.input.id
            /\ \E i \in DOMAIN todos : todos[i].id = c.input.id
            /\ gestures' = gestures + 1
            /\ dialog' = 0]_<<vars, viewVars>>
  /\ [](/\ cancelDeleteDialog(View).calls = calls
        /\ \A i \in DOMAIN todos : openDeleteDialog(View, todos[i]).calls = calls
        /\ \A c \in BagToSet(calls) :
             c.stage = "response" /\ c.from = "handleDelete" /\ c.result.ok =>
               LET after == AfterSettle(c)
               IN /\ after.todos = SelectSeq(todos, LAMBDA t : t.id # c.input.id)
                  /\ \A i \in DOMAIN after.todos : after.todos[i].id # c.input.id
                  /\ [after EXCEPT !.todos = todos, !.calls = calls, !.dialog = dialog]
                       = View)

\* The user confirmed the dialog of one of two listed items; the call has
\* deleted the row and its response is about to remove the item from the list.
C20_Witness ==
  /\ Len(todos) = 2 /\ dialog = 0
  /\ \E c \in BagToSet(calls) :
       /\ c.stage = "response" /\ c.from = "handleDelete"
       /\ c.result.ok /\ c.result.value.success
       /\ ~HasRow(store, c.input.id)
       /\ \E i, j \in DOMAIN todos : todos[i].id = c.input.id /\ todos[j].id # c.input.id

\* C21: cancelling an edit leaves no item in edit mode and the edit form
\* empty, and issues no call; and every step of an edit that handles no
\* response (starting it, typing in its form, cancelling it) leaves the
\* store, the local list and the calls in flight as they are.
C21_CancelEditDiscards ==
  /\ [](editingTodo # NoTodo =>
          /\ cancelEdit(View).editingTodo = NoTodo
          /\ cancelEdit(View).editFormData = EmptyForm
          /\ Render(cancelEdit(View)).editCards = {}
          /\ cancelEdit(View).calls = calls
          /\ cancelEdit(View).todos = todos)
  /\ [][(editingTodo' # editingTodo \/ editFormData' # editFormData)
        /\ calls' = calls =>
          /\ store' = store
          /\ todos' = todos]_<<vars, viewVars>>

\* An item is in edit mode with a title typed over its own, nothing is in
\* flight, and the user can still cancel.
C21_Witness ==
  /\ calls = EmptyBag
  /\ gestures < MaxGestures
  /\ \E i \in Render(View).editCards :
       /\ editFormData.title \in Titles
       /\ editFormData.title # todos[i].title

\* The getTodos calls of the view that the server has not served yet.
LoadRequests(bag) ==
  CopiesIn(Request("loadTodos", NoInput), bag)

\* C22: the view starts with one getTodos call and never issues another, a
\* failed one included; when the response carries a list the local list
\* becomes that list, and when the call is rejected the local list stays as
\* it is (empty, when nothing else has filled it) and no getTodos call is in
\* flight afterwards.
C22_LoadOnceNoRetry ==
  /\ LoadRequests(calls) = 1
  /\ [][LoadRequests(calls') <= LoadRequests(calls)]_<<vars, viewVars>>
  /\ [](\A c \in BagToSet(calls) :
          c.from = "loadTodos" =>
            /\ CopiesIn(c, calls) = 1
            /\ \A d \in BagToSet(calls) : d.from = "loadTodos" => d = c
            /\ c.stage = "response" /\ c.result.ok =>
                 AfterSettle(c).todos = c.result.value.rows
            /\ c.stage = "response" /\ ~c.result.ok =>
                 /\ AfterSettle(c).todos = todos
                 /\ \A d \in BagToSet(AfterSettle(c).calls) : d.from # "loadTodos")

\* The getTodos call was rejected while the store holds todos: the response is
\* about to be handled and the local list is empty.
C22_Witness ==
  /\ todos = <<>> /\ store # {}
  /\ \E c \in BagToSet(calls) :
       c.from = "loadTodos" /\ c.stage = "response" /\ ~c.result.ok

\* ================================================================ the claims of the theme
\* C23: the mode is always light or dark; a fresh session started from what
\* is persisted would start in the mode now in effect, which is light when
\* nothing is persisted; toggling twice gives the mode and the presentation
\* back; and every step that changes the mode is one toggle, which flips the
\* mode, persists the new one and touches nothing of the todos.
C23_ThemeToggleRoundTrip ==
  /\ [](/\ theme \in Themes
        /\ ResolveTheme(persisted) = theme
        /\ persisted = "none" => theme = "light"
        /\ toggleTheme(theme).theme \in Themes \ {theme}
        /\ toggleTheme(toggleTheme(theme).theme).theme = theme
        /\ Presentation(toggleTheme(toggleTheme(theme).theme).theme)
             = Presentation(theme)
        /\ Presentation(toggleTheme(theme).theme) # Presentation(theme))
  /\ [][theme' # theme =>
          /\ theme' = toggleTheme(theme).theme
          /\ persisted' = theme'
          /\ UNCHANGED <<vars, todos, isLoading, editingTodo, formData, editFormData,
                         dialog, calls>>]_<<vars, viewVars, themeVars>>

\* The mode is dark and persisted as dark after every gesture of the budget
\* was made, with the view loaded.
C23_Witness ==
  /\ theme = "dark" /\ persisted = "dark"
  /\ gestures = MaxGestures
  /\ todos # <<>>

\* C30: the toggle control shows the mode it switches to and never the
\* current one (in light the title 'Switch to dark mode' and the moon, in
\* dark the title 'Switch to light mode' and the sun), and a click on it
\* runs toggle once.
C30_ToggleShowsTargetMode ==
  LET control == ThemeToggle(theme)
      here == [theme |-> theme, persisted |-> persisted]
  IN /\ theme = "light" =>
          control.title = "Switch to dark mode" /\ control.icon = "Moon"
     /\ theme = "dark" =>
          control.title = "Switch to light mode" /\ control.icon = "Sun"
     /\ control.title # "Switch to " \o theme \o " mode"
     /\ control.onClick = <<"toggleTheme">>
     /\ Click(control.onClick, here) = toggleTheme(theme)
     /\ Click(control.onClick, here).theme # theme

\* The control in dark mode after the first gesture: the sun is shown.
C30_Witness ==
  /\ theme = "dark"
  /\ gestures = 1
  /\ ThemeToggle(theme).icon = "Sun"

\* ================================================================ the view and the store
\* The ids of the items of a local list.
IdsOf(list) == {list[i].id : i \in 1..Len(list)}

\* The response of a call that was rejected is waiting to be handled.
SomeCallFailed ==
  \E c \in BagToSet(calls) : c.stage = "response" /\ ~c.result.ok

\* The local list holds each stored row once, as stored, and nothing else.
ListMatchesStore ==
  /\ Len(todos) = Cardinality(store)
  /\ {todos[i] : i \in 1..Len(todos)} = store

\* The view over a store whose statements never throw.
NextReliable ==
  \/ \E text \in TypedTitles : UserTypeTitle(text)
  \/ \E text \in TypedDescriptions : UserTypeDescription(text)
  \/ UserSubmit
  \/ \E i \in 1..Len(todos) : UserToggle(i)
  \/ \E i \in 1..Len(todos) : UserStartEdit(i)
  \/ \E text \in TypedTitles : UserEditTitle(text)
  \/ \E text \in TypedDescriptions : UserEditDescription(text)
  \/ UserEditSubmit
  \/ UserCancelEdit
  \/ \E i \in 1..Len(todos) : UserOpenDelete(i)
  \/ UserCancelDelete
  \/ UserConfirmDelete
  \/ \E c \in BagToSet(calls) : ServerHandle(c, FALSE)
  \/ \E c \in BagToSet(calls) : Settle(c)
  \/ Tick /\ UNCHANGED viewVars

SpecReliable ==
  InitView /\ [][NextReliable /\ UNCHANGED themeVars]_<<vars, viewVars, themeVars>>

\* Every todo ever created is still stored: no delete was served, so no
\* update was refused for a missing row.
NothingDeleted == \A id \in 1..(nextId - 1) : HasRow(store, id)

\* C24: over a store that never throws and while no todo has been deleted,
\* so that every call issued so far has succeeded, whenever no call is in
\* flight the local list holds exactly the stored rows, each with the field
\* values of the store.
C24_QuiescentListMatchesStore ==
  calls = EmptyBag /\ NothingDeleted /\ ~SomeCallFailed => ListMatchesStore

\* C25: in every state of the view the items of the local list have distinct
\* ids.
C25_NoDuplicateIds ==
  \A i, j \in 1..Len(todos) : todos[i].id = todos[j].id => i = j

\* ---------------------------------------------------------------- a title typed early
\* The view a moment after mount: the user has typed a title into the create
\* form while the list query is still in flight; gestures counts from here.
InitRace ==
  /\ now = 0
  /\ \E k \in 0..MaxTodos : store = StoredBefore(k) /\ nextId = k + 1
  /\ \E text \in Titles :
       ViewIs(Issue(setFormTitle(InitialView, text), "loadTodos", NoInput))
  /\ gestures = 0
  /\ persisted = "none"
  /\ theme = ResolveTheme(persisted)

SpecRace == InitRace /\ [][NextView /\ UNCHANGED themeVars]_<<vars, viewVars, themeVars>>

\* The todo of this id was created and has been deleted, and the response of
\* its delete call has been handled: it is in neither the store nor the list.
DeletedAndRemoved(id) ==
  /\ id \in 1..(nextId - 1)
  /\ ~HasRow(store, id)
  /\ id \notin IdsOf(todos)
  /\ \A c \in BagToSet(calls) : c.from = "handleDelete" => c.input.id # id

\* C26: once a todo was deleted and the response of the delete has removed it
\* from the local list, handling any response that arrives later leaves the
\* list without an item of that id.
C26_DeletedIdStaysOut ==
  \A c \in BagToSet(calls) : \A id \in 1..(nextId - 1) :
    c.stage = "response" /\ DeletedAndRemoved(id) =>
      id \notin IdsOf(AfterSettle(c).todos)

\* C27: when the response of an edit of one item carries a record while a
\* different item is in edit mode, handling it leaves that other item in
\* edit mode and the edit form as it is.
C27_EditResponseEndsOnlyItsOwnEdit ==
  \A c \in BagToSet(calls) :
    /\ c.stage = "response" /\ c.from = "handleEditSubmit" /\ c.result.ok
    /\ editingTodo # NoTodo /\ editingTodo.id # c.input.id
    => /\ AfterSettle(c).editingTodo = editingTodo
       /\ AfterSettle(c).editFormData = editFormData

\* C28: in every state of the view in which editingTodo is set, the local
\* list has an item with its id.
C28_EditedItemIsListed ==
  editingTodo # NoTodo => editingTodo.id \in IdsOf(todos)

\* C29: submitting the edit form of an item while its title is empty after
\* trimming issues no call and changes nothing of the view: the item stays in
\* edit mode, the edit form and the local list stay as they are.
C29_BlankEditTitleDoesNothing ==
  editingTodo # NoTodo /\ Trim(editFormData.title) = "" =>
    /\ handleEditSubmit(View) = View
    /\ handleEditSubmit(View).calls = calls
    /\ handleEditSubmit(View).editingTodo = editingTodo
    /\ handleEditSubmit(View).editFormData = editFormData
    /\ handleEditSubmit(View).todos = todos
    /\ Render(handleEditSubmit(View)).editCards = Render(View).editCards

\* An item is in edit mode with a whitespace-only title in its form; the
\* three gestures (edit, input, submission) have left no call in flight.
C29_Witness ==
  /\ Render(View).editCards # {}
  /\ editFormData.title = " "
  /\ gestures = 3
  /\ calls = EmptyBag
====
